---- MODULE Spec2Model ----
(***************************************************************************)
(* Markdown Combiner: a model of the two variants of the CLI tool.         *)
(*   "deny"  = src/tools/markdown-combiner/combine.ts (denylist, fencing)  *)
(*   "allow" = src/unnamed/part_000 (allowlist of markdown extensions)     *)
(* A JavaScript string is modelled as a sequence of one-character strings, *)
(* so that endsWith, includes, RegExp matching, sorting and joining are    *)
(* computed character by character, as the runtime computes them.          *)
(***************************************************************************)
EXTENDS Integers, Sequences, FiniteSets, TLC

\* ---------------------------------------------------------------- bounds
\* Largest number of pool entries placed in the initial source tree.
MaxFiles == 2
\* Largest number of user tokens after "bun combine.ts" in SpecArgs.
MaxArgs == 3

\* --------------------------------------------------------------- strings
\* The grave accent U+0060 (the lexer of TLA+ does not take it in a string).
Backtick == "U+0060"

\* Printable ASCII in code-unit order, from U+0020 to U+007E.
Printable ==
  << " ", "!", "\"", "#", "$", "%", "&", "'", "(", ")", "*", "+", ",", "-", ".", "/",
     "0", "1", "2", "3", "4", "5", "6", "7", "8", "9", ":", ";", "<", "=", ">", "?",
     "@", "A", "B", "C", "D", "E", "F", "G", "H", "I", "J", "K", "L", "M", "N", "O",
     "P", "Q", "R", "S", "T", "U", "V", "W", "X", "Y", "Z", "[", "\\", "]", "^", "_",
     Backtick, "a", "b", "c", "d", "e", "f", "g", "h", "i", "j", "k", "l", "m", "n", "o",
     "p", "q", "r", "s", "t", "u", "v", "w", "x", "y", "z", "{", "|", "}", "~" >>

\* The UTF-16 code unit of each character (the key of the default sort order).
CodeUnits ==
  [c \in {"\n"} \cup {Printable[k] : k \in 1..Len(Printable)} |->
     IF c = "\n" THEN 10
     ELSE 31 + (CHOOSE k \in 1..Len(Printable) : Printable[k] = c)]

CodeUnit(c) == CodeUnits[c]

\* a < b as JavaScript compares two strings: code unit by code unit, a proper
\* prefix before the longer string.
RECURSIVE StrLess(_, _)
StrLess(a, b) ==
  IF b = <<>> THEN FALSE
  ELSE IF a = <<>> THEN TRUE
  ELSE IF Head(a) = Head(b) THEN StrLess(Tail(a), Tail(b))
  ELSE CodeUnit(Head(a)) < CodeUnit(Head(b))

\* String.prototype.startsWith, at position p (1-based).
StartsWithAt(s, p, t) ==
  /\ p + Len(t) - 1 <= Len(s)
  /\ \A k \in 1..Len(t) : s[p + k - 1] = t[k]

\* String.prototype.endsWith.
endsWith(s, t) ==
  /\ Len(t) <= Len(s)
  /\ \A k \in 1..Len(t) : s[Len(s) - Len(t) + k] = t[k]

\* String.prototype.includes.
includes(s, t) == \E p \in 1..(Len(s) + 1) : StartsWithAt(s, p, t)

\* String.prototype.indexOf (1-based; 0 when absent).
StrIndexOf(s, t) ==
  IF includes(s, t)
  THEN CHOOSE p \in 1..(Len(s) + 1) :
         /\ StartsWithAt(s, p, t)
         /\ \A q \in 1..(p - 1) : ~StartsWithAt(s, q, t)
  ELSE 0

\* String.prototype.replace with a string pattern: the FIRST occurrence only.
replace(s, t, r) ==
  LET p == StrIndexOf(s, t) IN
  IF p = 0 THEN s
  ELSE SubSeq(s, 1, p - 1) \o r \o SubSeq(s, p + Len(t), Len(s))

\* Array.prototype.join.
RECURSIVE join(_, _)
join(parts, sep) ==
  IF parts = <<>> THEN <<>>
  ELSE IF Len(parts) = 1 THEN parts[1]
  ELSE parts[1] \o sep \o join(Tail(parts), sep)

\* ------------------------------------------------------ string literals
FlagSrc == << "-", "-", "s", "r", "c" >>
FlagOut == << "-", "-", "o", "u", "t" >>
DefaultSrc == << "." >>
DefaultOut == << ".", "/", "c", "o", "m", "b", "i", "n", "e", "d", ".", "m", "d" >>
Slash == << "/" >>
Star == << "*" >>
DotStar == << ".", "*" >>
ExtMd == << ".", "m", "d" >>
ExtMdx == << ".", "m", "d", "x" >>
ExtMarkdown == << ".", "m", "a", "r", "k", "d", "o", "w", "n" >>
Title == << "#", " ", "C", "o", "m", "b", "i", "n", "e", "d", " ", "D", "o", "c", "u", "m", "e", "n", "t", "a", "t", "i", "o", "n", "\n" >>
SeparatorHead == << "\n", "-", "-", "-", "\n", "#", "#", " ", "S", "o", "u", "r", "c", "e", ":", " " >>
SeparatorTail == << "\n", "-", "-", "-", "\n" >>
FenceOpen == << Backtick, Backtick, Backtick, "\n" >>
FenceClose == << "\n", Backtick, Backtick, Backtick >>
NewLine == << "\n" >>
ObjectObject == << "[", "o", "b", "j", "e", "c", "t", " ", "O", "b", "j", "e", "c", "t", "]" >>

\* combine.ts: the folder names and the file patterns of the denylist.
excludeFolders ==
  << << ".", "g", "i", "t" >>,
     << "t", "m", "p" >>,
     << "n", "o", "d", "e", "_", "m", "o", "d", "u", "l", "e", "s" >>,
     << "d", "i", "s", "t" >>,
     << "b", "u", "i", "l", "d" >> >>

excludeFiles ==
  << << "*", ".", "D", "S", "_", "S", "t", "o", "r", "e" >>,
     << "*", ".", "l", "o", "g" >>,
     << "*", ".", "t", "m", "p" >>,
     << "p", "a", "c", "k", "a", "g", "e", "-", "l", "o", "c", "k", ".", "j", "s", "o", "n" >>,
     << "y", "a", "r", "n", ".", "l", "o", "c", "k" >>,
     << "b", "u", "n", ".", "l", "o", "c", "k", "b" >> >>


\* ----------------------------------------------------------------- paths
\* The segments of a path between its "/" characters (String.split).
RECURSIVE SplitAt(_, _, _)
SplitAt(s, sep, acc) ==
  IF s = <<>> THEN <<acc>>
  ELSE IF Head(s) = sep THEN <<acc>> \o SplitAt(Tail(s), sep, <<>>)
  ELSE SplitAt(Tail(s), sep, Append(acc, Head(s)))

split(s, sep) == SplitAt(s, sep, <<>>)

\* node:path normalisation of the segments: "" and "." are dropped and ".."
\* removes the segment before it (at the root of an absolute path it is dropped).
RECURSIVE NormalizeSegments(_, _)
NormalizeSegments(segs, acc) ==
  IF segs = <<>> THEN acc
  ELSE LET g == Head(segs) IN
       IF g = <<>> \/ g = << "." >> THEN NormalizeSegments(Tail(segs), acc)
       ELSE IF g = << ".", "." >>
            THEN NormalizeSegments(Tail(segs),
                   IF acc = <<>> THEN acc ELSE SubSeq(acc, 1, Len(acc) - 1))
            ELSE NormalizeSegments(Tail(segs), Append(acc, g))

\* An absolute path, normalised.
NormalizeAbsolute(p) == Slash \o join(NormalizeSegments(split(p, "/"), <<>>), Slash)

IsAbsolute(p) == p # <<>> /\ Head(p) = "/"

\* path.resolve(from, to) for an absolute `from`.
resolve(from, to) ==
  IF IsAbsolute(to) THEN NormalizeAbsolute(to)
  ELSE NormalizeAbsolute(from \o Slash \o to)

\* path.join(a, b) for an absolute `a`.
pathJoin(a, b) == NormalizeAbsolute(a \o Slash \o b)

\* The position of the last "/" of an absolute path.
LastSlash(p) == CHOOSE k \in 1..Len(p) : p[k] = "/" /\ \A j \in (k + 1)..Len(p) : p[j] # "/"

\* path.dirname and path.basename of a normalised absolute path.
dirname(p) == IF LastSlash(p) = 1 THEN Slash ELSE SubSeq(p, 1, LastSlash(p) - 1)
basename(p) == SubSeq(p, LastSlash(p) + 1, Len(p))

\* p lies strictly below directory d.
IsBelow(p, d) ==
  /\ p # d
  /\ StartsWithAt(p, 1, IF d = Slash THEN d ELSE d \o Slash)

\* The path of p relative to the directory d it lies below.
RelativeTo(p, d) == SubSeq(p, (IF d = Slash THEN 1 ELSE Len(d) + 1) + 1, Len(p))

\* ---------------------------------------------------------------- RegExp
\* The atoms of a pattern source: a character, or a character followed by "*".
\* Only "." and "*" are special in the patterns the tool builds.
RECURSIVE RegExpAtoms(_)
RegExpAtoms(src) ==
  IF src = <<>> THEN <<>>
  ELSE IF Len(src) >= 2 /\ src[2] = "*"
       THEN <<[c |-> src[1], star |-> TRUE]>> \o RegExpAtoms(SubSeq(src, 3, Len(src)))
       ELSE <<[c |-> src[1], star |-> FALSE]>> \o RegExpAtoms(Tail(src))

\* One pattern character against one input character: "." is any character
\* but a line terminator, any other character is itself.
AtomTakes(c, ch) == IF c = "." THEN ch # "\n" ELSE c = ch

\* The atoms match some prefix of s that starts at position p.
RECURSIVE MatchHere(_, _, _)
MatchHere(atoms, s, p) ==
  IF atoms = <<>> THEN TRUE
  ELSE LET a == Head(atoms) IN
       IF a.star
       THEN \E n \in 0..(Len(s) - p + 1) :
              /\ \A k \in p..(p + n - 1) : AtomTakes(a.c, s[k])
              /\ MatchHere(Tail(atoms), s, p + n)
       ELSE /\ p <= Len(s)
            /\ AtomTakes(a.c, s[p])
            /\ MatchHere(Tail(atoms), s, p + 1)

\* s.match(new RegExp(src)) is not null: an unanchored search.
RegExpMatch(s, src) == \E p \in 1..(Len(s) + 1) : MatchHere(RegExpAtoms(src), s, p)

\* ------------------------------------------------------------- arguments
\* Array.prototype.indexOf (1-based; 0 when absent).
indexOf(args, x) ==
  IF \E k \in 1..Len(args) : args[k] = x
  THEN CHOOSE k \in 1..Len(args) : args[k] = x /\ \A j \in 1..(k - 1) : args[j] # x
  ELSE 0

\* Mutant of getArgValue: the LAST occurrence of the flag decides.
getArgValueLastOccurrence(args, flag, defaultValue) ==
  LET occ == {k \in 1..Len(args) : args[k] = flag}
      flagIndex == IF occ = {} THEN 0 ELSE CHOOSE k \in occ : \A j \in occ : j <= k
  IN IF flagIndex # 0 /\ flagIndex + 1 <= Len(args)
     THEN args[flagIndex + 1]
     ELSE defaultValue

\* Mutant of getArgValue: a token that looks like a flag is not taken as a value.
getArgValueSkipFlags(args, flag, defaultValue) ==
  LET flagIndex == indexOf(args, flag) IN
  IF /\ flagIndex # 0 /\ flagIndex + 1 <= Len(args)
     /\ ~StartsWithAt(args[flagIndex + 1], 1, << "-", "-" >>)
  THEN args[flagIndex + 1]
  ELSE defaultValue

\* getArgValue of both variants, with 1-based positions.
getArgValue(args, flag, defaultValue) ==
  LET flagIndex == indexOf(args, flag) IN
  IF flagIndex # 0 /\ flagIndex + 1 <= Len(args)
  THEN args[flagIndex + 1]
  ELSE defaultValue


\* ------------------------------------------------------------ filesystem
\* A filesystem maps each absolute path that exists to its node:
\*   kind "dir" or "file"; ok = it can be listed (a directory) or read as
\*   text (a file); content = the text of a file.
DirNode == [kind |-> "dir", ok |-> TRUE, content |-> <<>>]
FileNode(text) == [kind |-> "file", ok |-> TRUE, content |-> text]

\* process.cwd()
Cwd == << "/", "w" >>

\* The directories above an absolute path, the root included.
Ancestors(p) == {Slash} \cup {SubSeq(p, 1, k - 1) : k \in {j \in 2..Len(p) : p[j] = "/"}}

\* exists(path) and stat(path).isDirectory() of node:fs/promises.
exists(f, p) == p \in DOMAIN f
isDirectory(f, p) == f[p].kind = "dir"

\* The entries the recursive readdir finds below a directory.
Descendants(f, d) == {p \in DOMAIN f : IsBelow(p, d)}

\* readdir(d, {recursive: true}) throws when d or a directory below it
\* cannot be listed.
ReaddirFails(f, d) ==
  \E p \in Descendants(f, d) \cup {d} : f[p].kind = "dir" /\ ~f[p].ok

\* The orders in which a recursive walk may enumerate a set of entries: every
\* order that lists a directory before the entries below it (depth-first,
\* breadth-first, and any order of the entries of one directory).
RECURSIVE WalkOrders(_)
WalkOrders(S) ==
  IF S = {} THEN {<<>>}
  ELSE UNION {{<<x>> \o r : r \in WalkOrders(S \ {x})} :
                x \in {y \in S : dirname(y) \notin S}}

\* The Dirent of an entry (readdir with withFileTypes: true).
Dirent(f, p) ==
  [name |-> basename(p), parentPath |-> dirname(p), isFile |-> f[p].kind = "file"]

\* Bun.file(path).text() throws unless path is a readable regular file.
ReadFails(f, p) == ~(p \in DOMAIN f /\ f[p].kind = "file" /\ f[p].ok)

\* Bun.write(path, data) throws when path is a directory or lies below a file.
WriteFails(f, p) ==
  \/ p \in DOMAIN f /\ f[p].kind = "dir"
  \/ \E a \in Ancestors(p) : a \in DOMAIN f /\ f[a].kind = "file"

\* The filesystem after Bun.write(path, data): the file is created or
\* overwritten, and the directories above it are created when missing.
WriteFile(f, p, data) ==
  [q \in DOMAIN f \cup Ancestors(p) \cup {p} |->
     IF q = p THEN FileNode(data)
     ELSE IF q \in DOMAIN f THEN f[q]
     ELSE DirNode]

\* ------------------------------------------------------ filter and sort
\* String(x) of an array element, the key Array.prototype.sort compares by
\* default: a string is itself, a Dirent object is "[object Object]".
SortKey(v, x) == IF v = "deny" THEN ObjectObject ELSE x

\* One step of the stable sort: x goes after every element whose key is not
\* greater than its own.
RECURSIVE InsertByKey(_, _, _)
InsertByKey(v, sorted, x) ==
  IF sorted = <<>> THEN <<x>>
  ELSE IF StrLess(SortKey(v, x), SortKey(v, Head(sorted)))
       THEN <<x>> \o sorted
       ELSE <<Head(sorted)>> \o InsertByKey(v, Tail(sorted), x)

\* Array.prototype.sort() with no comparator (stable).
RECURSIVE sort(_, _)
sort(v, xs) ==
  IF xs = <<>> THEN <<>>
  ELSE InsertByKey(v, sort(v, SubSeq(xs, 1, Len(xs) - 1)), xs[Len(xs)])

\* combine.ts: the filter of the denylist variant.
isExcludedFolder(file) ==
  \E k \in 1..Len(excludeFolders) : includes(file.parentPath, excludeFolders[k])

isExcludedFile(file) ==
  \E k \in 1..Len(excludeFiles) :
    RegExpMatch(file.name, replace(excludeFiles[k], Star, DotStar))

KeepDeny(file) == ~isExcludedFolder(file) /\ ~isExcludedFile(file) /\ file.isFile

\* Mutant of KeepAllow: the two extensions the README names, without .mdx.
KeepAllowReadme(file) == endsWith(file, ExtMd) \/ endsWith(file, ExtMarkdown)

\* part_000: the filter of the allowlist variant.
KeepAllow(file) ==
  endsWith(file, ExtMd) \/ endsWith(file, ExtMdx) \/ endsWith(file, ExtMarkdown)

\* The predicate handed to Array.prototype.filter.
Keep(v, file) == IF v = "deny" THEN KeepDeny(file) ELSE KeepAllow(file)

\* Array.prototype.filter: the elements that pass, in their order. `passes` is
\* the set of the elements of xs the predicate holds of.
filter(xs, passes) == SelectSeq(xs, LAMBDA x : x \in passes)

\* The element of allFiles that stands for entry p: its Dirent (readdir with
\* withFileTypes) or its path relative to the source directory.
Listed(v, f, d, p) == IF v = "deny" THEN Dirent(f, p) ELSE RelativeTo(p, d)

\* The elements of allFiles the filter predicate holds of.
Passing(v, listed) ==
  UNION {IF Keep(v, listed[p]) THEN {listed[p]} ELSE {} : p \in DOMAIN listed}

\* files / markdownFiles: the candidate list for one enumeration order of the
\* entries, `listed` mapping each entry to its element of allFiles.
Candidates(v, order, listed, passes) ==
  LET allFiles == [k \in 1..Len(order) |-> listed[order[k]]]
  IN sort(v, filter(allFiles, passes))

\* The candidate lists a run may get from readdir, filter and sort: one for
\* each order in which the walk may enumerate the entries below d. (The
\* elements of allFiles and the outcome of the filter predicate on each are
\* bound once, by the quantifiers, and used for every order.)
CandidateLists(v, f, d) ==
  LET below == Descendants(f, d) IN
  UNION {UNION {{Candidates(v, order, listed, passes) : order \in WalkOrders(below)} :
                  passes \in {Passing(v, listed)}} :
           listed \in {[p \in below |-> Listed(v, f, d, p)]}}

\* ----------------------------------------------------------- combining
\* The path a candidate is read from, and the label of its separator.
FullPath(v, d, cand) ==
  IF v = "deny" THEN pathJoin(cand.parentPath, cand.name) ELSE pathJoin(d, cand)

Label(v, d, cand) == IF v = "deny" THEN FullPath(v, d, cand) ELSE cand

separator(label) == SeparatorHead \o label \o SeparatorTail

\* Mutant of MixedBody: the test of the extension is not negated.
MixedBodyInverted(name, fileContent) ==
  IF endsWith(name, ExtMd) THEN FenceOpen \o fileContent \o FenceClose
  ELSE fileContent

\* combine.ts: the body pushed for a file of the denylist variant.
MixedBody(name, fileContent) ==
  IF ~endsWith(name, ExtMd) THEN FenceOpen \o fileContent \o FenceClose
  ELSE fileContent

\* The body pushed after the separator.
Body(v, cand, fileContent) ==
  IF v = "deny" THEN MixedBody(cand.name, fileContent) ELSE fileContent


\* ------------------------------------------------------------ the inputs
\* The entries a source tree is drawn from: markdown and other files, the same
\* file name in two directories, excluded and look-alike folders and file
\* names, an unreadable file, a directory with a markdown name, a directory
\* that cannot be listed, and an output file left by an earlier use.
Entry(p, k, o, text) == [path |-> p, node |-> [kind |-> k, ok |-> o, content |-> text]]

Pool ==
  { Entry(<< "/", "w", "/", "a", ".", "m", "d" >>, "file", TRUE, << "A" >>),
    Entry(<< "/", "w", "/", "d", "/", "a", ".", "m", "d" >>, "file", TRUE, << "B" >>),
    Entry(<< "/", "w", "/", "b", ".", "t", "x", "t" >>, "file", TRUE, << "T" >>),
    Entry(<< "/", "w", "/", "b", "u", "i", "l", "d", "e", "r", "/", "c", ".", "m", "d" >>, "file", TRUE, << "C" >>),
    Entry(<< "/", "w", "/", "d", "i", "s", "t", "/", "e", ".", "m", "d" >>, "file", TRUE, << "E" >>),
    Entry(<< "/", "w", "/", "c", "a", "t", "a", "l", "o", "g", ".", "m", "d" >>, "file", TRUE, << "G" >>),
    Entry(<< "/", "w", "/", "x", ".", "l", "o", "g" >>, "file", TRUE, << "L" >>),
    Entry(<< "/", "w", "/", "n", ".", "m", "d", "x" >>, "file", TRUE, << "X" >>),
    Entry(<< "/", "w", "/", "z", ".", "m", "a", "r", "k", "d", "o", "w", "n" >>, "file", TRUE, << "Z" >>),
    Entry(<< "/", "w", "/", "u", ".", "m", "d" >>, "file", FALSE, << "U" >>),
    Entry(<< "/", "w", "/", "k", ".", "m", "d" >>, "dir", TRUE, << >>),
    Entry(<< "/", "w", "/", "p" >>, "dir", FALSE, << >>),
    Entry(<< "/", "w", "/", "c", "o", "m", "b", "i", "n", "e", "d", ".", "m", "d" >>, "file", TRUE, << "O" >>) }

\* The filesystem holding the entries S: the working directory, the entries and
\* the directories above them.
TreeOf(S) ==
  LET paths == {Slash, Cwd} \cup {e.path : e \in S}
                 \cup UNION {Ancestors(e.path) : e \in S}
  IN [p \in paths |->
        IF \E e \in S : e.path = p THEN (CHOOSE e \in S : e.path = p).node
        ELSE DirNode]

\* Bun.argv starts with the runtime and the script.
ArgvHead == << << "b", "u", "n" >>, << "c", "o", "m", "b", "i", "n", "e", ".", "t", "s" >> >>

\* The command lines of Spec.
UserArgs ==
  { << >>,
    << FlagOut, << ".", ".", "/", "o", ".", "m", "d" >> >>,
    << FlagSrc, << "d", "i", "s", "t" >> >>,
    << FlagSrc, << "a", ".", "m", "d" >> >> }

\* The tokens of the command lines of SpecArgs, and its source tree.
Tokens == { FlagSrc, FlagOut, << "d" >>, << "o", ".", "m", "d" >> }

RECURSIVE SeqsUpTo(_, _)
SeqsUpTo(S, n) ==
  IF n = 0 THEN {<<>>}
  ELSE SeqsUpTo(S, n - 1) \cup
       {Append(q, x) : q \in {r \in SeqsUpTo(S, n - 1) : Len(r) = n - 1}, x \in S}

ArgsTree == {e \in Pool : e.path \in {<< "/", "w", "/", "a", ".", "m", "d" >>, << "/", "w", "/", "d", "/", "a", ".", "m", "d" >>}}

\* ------------------------------------------------------------- the state
VARIABLES
  variant,          \* "deny" (combine.ts) or "allow" (part_000)
  argv,             \* Bun.argv
  fs,               \* the filesystem
  run,              \* the number of the current run of the tool
  pc,               \* where the current run stands
  srcDir, outFile, sourcePath, outputPath,
  tree,             \* the entries below sourcePath when readdir listed them
  files,            \* the candidate list (files / markdownFiles)
  i,                \* the position of the read loop in the candidate list
  combinedContent,  \* the fragments pushed so far
  exitCode,         \* -1 while the run goes on, then the exit status
  err,              \* the stage whose error the catch block reported, or "none"
  warned,           \* console.warn was called (no files found)
  readLog,          \* the paths Bun.file(..).text() was called on in this run
  written,          \* the Bun.write calls of this run that succeeded
  fsAtStart,        \* the filesystem when the current run started
  hist              \* what the earlier runs did

vars ==
  << variant, argv, fs, run, pc, srcDir, outFile, sourcePath, outputPath, tree,
     files, i, combinedContent, exitCode, err, warned, readLog, written,
     fsAtStart, hist >>

Unset == << >>
NoTree == [p \in {} |-> DirNode]

\* The state of a run that has not started.
FreshRun ==
  /\ pc = "parse"
  /\ srcDir = Unset /\ outFile = Unset /\ sourcePath = Unset /\ outputPath = Unset
  /\ tree = NoTree /\ files = <<>> /\ i = 1 /\ combinedContent = <<>>
  /\ exitCode = -1 /\ err = "none" /\ warned = FALSE
  /\ readLog = <<>> /\ written = <<>>

InitRun ==
  /\ FreshRun
  /\ run = 1
  /\ fsAtStart = fs
  /\ hist = <<>>

Init ==
  /\ variant \in {"deny", "allow"}
  /\ argv \in {ArgvHead \o u : u \in UserArgs}
  /\ fs \in {TreeOf(S) : S \in {T \in SUBSET Pool : Cardinality(T) <= MaxFiles}}
  /\ InitRun

InitArgs ==
  /\ variant \in {"deny", "allow"}
  /\ argv \in {ArgvHead \o u : u \in SeqsUpTo(Tokens, MaxArgs)}
  /\ fs = TreeOf(ArgsTree)
  /\ InitRun


\* ------------------------------------------------------------ the actions
\* The catch block of main: the error is reported and the process exits 1.
Throw(stage) ==
  /\ err' = stage
  /\ exitCode' = 1
  /\ pc' = "exited"

\* 1. Parse Command-Line Arguments.
ParseArgs ==
  /\ pc = "parse"
  /\ srcDir' = getArgValue(argv, FlagSrc, DefaultSrc)
  /\ outFile' = getArgValue(argv, FlagOut, DefaultOut)
  /\ sourcePath' = resolve(Cwd, srcDir')
  /\ outputPath' = resolve(Cwd, outFile')
  /\ pc' = "validate"
  /\ UNCHANGED << variant, argv, fs, run, tree, files, i, combinedContent, exitCode,
                  err, warned, readLog, written, fsAtStart, hist >>

\* 2. Validate Source Directory.
ValidateSource ==
  /\ pc = "validate"
  /\ IF ~exists(fs, sourcePath) THEN Throw("notfound")
     ELSE IF ~isDirectory(fs, sourcePath) THEN Throw("notdir")
     ELSE pc' = "walk" /\ UNCHANGED << exitCode, err >>
  /\ UNCHANGED << variant, argv, fs, run, srcDir, outFile, sourcePath, outputPath,
                  tree, files, i, combinedContent, warned, readLog, written,
                  fsAtStart, hist >>

\* Mutant of Discover: no early return when no candidate is found, so the run
\* goes on to write a document that holds the title alone.
DiscoverNoEarlyReturn ==
  /\ pc = "walk"
  /\ IF ReaddirFails(fs, sourcePath)
     THEN /\ Throw("walk")
          /\ UNCHANGED << tree, files, combinedContent >>
     ELSE \E cands \in CandidateLists(variant, fs, sourcePath) :
            /\ tree' = [p \in Descendants(fs, sourcePath) |-> fs[p]]
            /\ files' = cands
            /\ combinedContent' = << Title >>
            /\ pc' = IF Len(cands) = 0 THEN "write" ELSE "read"
            /\ UNCHANGED << exitCode, err >>
  /\ UNCHANGED << variant, argv, fs, run, srcDir, outFile, sourcePath, outputPath,
                  i, warned, readLog, written, fsAtStart, hist >>

\* 3. Smart File Discovery and 4. Handle No Files Found.
Discover ==
  /\ pc = "walk"
  /\ IF ReaddirFails(fs, sourcePath)
     THEN /\ Throw("walk")
          /\ UNCHANGED << tree, files, combinedContent, warned >>
     ELSE \E cands \in CandidateLists(variant, fs, sourcePath) :
            /\ tree' = [p \in Descendants(fs, sourcePath) |-> fs[p]]
            /\ files' = cands
            /\ IF Len(cands) = 0
               THEN /\ warned' = TRUE
                    /\ exitCode' = 0
                    /\ pc' = "exited"
                    /\ UNCHANGED << combinedContent, err >>
               ELSE /\ combinedContent' = << Title >>
                    /\ pc' = "read"
                    /\ UNCHANGED << warned, exitCode, err >>
  /\ UNCHANGED << variant, argv, fs, run, srcDir, outFile, sourcePath, outputPath,
                  i, readLog, written, fsAtStart, hist >>

\* Mutant of CombineNext: a failed read saves what was combined so far before
\* the process exits (a partial-output mode).
CombineNextPartial ==
  /\ pc = "read"
  /\ LET cand == files[i]
         fullPath == FullPath(variant, sourcePath, cand)
     IN /\ readLog' = Append(readLog, fullPath)
        /\ IF ReadFails(fs, fullPath)
           THEN /\ Throw("read")
                /\ fs' = IF WriteFails(fs, outputPath) THEN fs
                          ELSE WriteFile(fs, outputPath, join(combinedContent, NewLine))
                /\ UNCHANGED << combinedContent, i >>
           ELSE /\ combinedContent' =
                     combinedContent \o
                       << separator(Label(variant, sourcePath, cand)),
                          Body(variant, cand, fs[fullPath].content) >>
                /\ i' = i + 1
                /\ pc' = IF i = Len(files) THEN "write" ELSE "read"
                /\ UNCHANGED << exitCode, err, fs >>
  /\ UNCHANGED << variant, argv, run, srcDir, outFile, sourcePath, outputPath,
                  tree, files, warned, written, fsAtStart, hist >>

\* 5. Intelligent Concatenation: one iteration of the loop over the candidates.
CombineNext ==
  /\ pc = "read"
  /\ LET cand == files[i]
         fullPath == FullPath(variant, sourcePath, cand)
     IN /\ readLog' = Append(readLog, fullPath)
        /\ IF ReadFails(fs, fullPath)
           THEN /\ Throw("read")
                /\ UNCHANGED << combinedContent, i >>
           ELSE /\ combinedContent' =
                     combinedContent \o
                       << separator(Label(variant, sourcePath, cand)),
                          Body(variant, cand, fs[fullPath].content) >>
                /\ i' = i + 1
                /\ pc' = IF i = Len(files) THEN "write" ELSE "read"
                /\ UNCHANGED << exitCode, err >>
  /\ UNCHANGED << variant, argv, fs, run, srcDir, outFile, sourcePath, outputPath,
                  tree, files, warned, written, fsAtStart, hist >>

\* 6. Write the final output.
WriteOutput ==
  /\ pc = "write"
  /\ IF WriteFails(fs, outputPath)
     THEN /\ Throw("write")
          /\ UNCHANGED << fs, written >>
     ELSE /\ fs' = WriteFile(fs, outputPath, join(combinedContent, NewLine))
          /\ written' = Append(written, [path |-> outputPath,
                                         data |-> join(combinedContent, NewLine)])
          /\ exitCode' = 0
          /\ pc' = "exited"
          /\ UNCHANGED err
  /\ UNCHANGED << variant, argv, run, srcDir, outFile, sourcePath, outputPath, tree,
                  files, i, combinedContent, warned, readLog, fsAtStart, hist >>

\* After a first successful run the tool is run a second time with the same
\* command line, on the filesystem the first run left.
Rerun ==
  /\ pc = "exited"
  /\ exitCode = 0
  /\ run = 1
  /\ hist' = Append(hist, [exitCode |-> exitCode, err |-> err, files |-> files,
                           tree |-> tree, written |-> written, warned |-> warned])
  /\ run' = run + 1
  /\ fsAtStart' = fs
  /\ pc' = "parse"
  /\ srcDir' = Unset /\ outFile' = Unset /\ sourcePath' = Unset /\ outputPath' = Unset
  /\ tree' = NoTree /\ files' = <<>> /\ i' = 1 /\ combinedContent' = <<>>
  /\ exitCode' = -1 /\ err' = "none" /\ warned' = FALSE
  /\ readLog' = <<>> /\ written' = <<>>
  /\ UNCHANGED << variant, argv, fs >>

Next ==
  \/ ParseArgs
  \/ ValidateSource
  \/ Discover
  \/ CombineNext
  \/ WriteOutput
  \/ Rerun

\* Runs over source trees of up to MaxFiles entries, for chosen command lines.
Spec == Init /\ [][Next]_vars

\* Runs over every command line of up to MaxArgs tokens, on one source tree.
SpecArgs == InitArgs /\ [][Next]_vars


\* ============================================================ properties
\* The properties restate what the specification says in their own terms:
\* they read the state and the filesystem, not the operators of the pipeline.

\* The first position of a flag in the argument vector (0 when absent).
FirstOccurrence(flag) ==
  IF \E k \in 1..Len(argv) : argv[k] = flag
  THEN CHOOSE k \in 1..Len(argv) : argv[k] = flag /\ \A j \in 1..(k - 1) : argv[j] # flag
  ELSE 0

\* What the argument resolver owes for a flag: the token after its first
\* occurrence, or the default when it is absent or the last token.
Owed(flag, default) ==
  IF FirstOccurrence(flag) # 0 /\ FirstOccurrence(flag) < Len(argv)
  THEN argv[FirstOccurrence(flag) + 1]
  ELSE default

Parsed == pc # "parse"

\* C9: getArgValue returns the token that follows the FIRST occurrence of the
\* flag when that occurrence is not the last token (later occurrences are
\* ignored), and the default when the flag is absent or its first occurrence is
\* the last token; the argument vector is never modified.
C9_GetArgValue ==
  /\ [](Parsed => /\ srcDir = Owed(FlagSrc, DefaultSrc)
                  /\ outFile = Owed(FlagOut, DefaultOut))
  /\ [][argv' = argv]_vars

\* C9 witness: the flag occurs twice, the run took the token after the first
\* occurrence, and a different token follows the later one.
C9_Witness ==
  /\ Parsed
  /\ \E j, k \in 1..(Len(argv) - 1) :
       /\ j < k /\ argv[j] = FlagSrc /\ argv[k] = FlagSrc
       /\ j = FirstOccurrence(FlagSrc)
       /\ srcDir = argv[j + 1]
       /\ argv[k + 1] # srcDir

\* A flag is present without a path value after it: its first occurrence is
\* the last token, or the token after it is the other flag.
IsLast(flag) == FirstOccurrence(flag) # 0 /\ FirstOccurrence(flag) = Len(argv)
BeforeFlag(flag, other) ==
  /\ FirstOccurrence(flag) # 0 /\ FirstOccurrence(flag) < Len(argv)
  /\ argv[FirstOccurrence(flag) + 1] = other

FailedAtValidation == err \in {"notfound", "notdir"}

\* C10 as stated: whenever --src (--out) is present with no path value after
\* it, because it is the last token or because the next token is the other
\* flag, the source directory (output path) is the default, the working
\* directory (./combined.md), and the run does not fail over the missing value.
C10_MissingValueFallsBack ==
  Parsed =>
    /\ (IsLast(FlagSrc) \/ BeforeFlag(FlagSrc, FlagOut)) =>
         sourcePath = Cwd /\ ~FailedAtValidation
    /\ (IsLast(FlagOut) \/ BeforeFlag(FlagOut, FlagSrc)) =>
         outputPath = Cwd \o << "/", "c", "o", "m", "b", "i", "n", "e", "d", ".", "m", "d" >>

\* C10 amended: the fallback to the default happens when the flag's first
\* occurrence is the last token; when the next token is the other flag, that
\* token is taken as the path value (--src --out bundle.md searches <cwd>/--out).
C10_LastTokenFallsBack ==
  Parsed =>
    /\ IsLast(FlagSrc) => sourcePath = Cwd /\ ~FailedAtValidation
    /\ IsLast(FlagOut) => outputPath = Cwd \o << "/", "c", "o", "m", "b", "i", "n", "e", "d", ".", "m", "d" >>
    /\ BeforeFlag(FlagSrc, FlagOut) => srcDir = FlagOut /\ sourcePath = Cwd \o << "/", "-", "-", "o", "u", "t" >>
    /\ BeforeFlag(FlagOut, FlagSrc) => outFile = FlagSrc /\ outputPath = Cwd \o << "/", "-", "-", "s", "r", "c" >>

\* C10 witness: a run whose --src is the last token went past validation with
\* the working directory as its source, after an --out that has its value.
C10_Witness ==
  /\ IsLast(FlagSrc)
  /\ FirstOccurrence(FlagOut) # 0
  /\ pc = "walk"
  /\ sourcePath = Cwd


\* The conditions under which a stage of the run raises an error, read off
\* the filesystem the run started on.
SourceMissing == sourcePath \notin DOMAIN fsAtStart
SourceNotDirectory == ~SourceMissing /\ fsAtStart[sourcePath].kind # "dir"
WalkRaises ==
  /\ ~SourceMissing /\ ~SourceNotDirectory
  /\ \E p \in DOMAIN fsAtStart :
       /\ p = sourcePath \/ IsBelow(p, sourcePath)
       /\ fsAtStart[p].kind = "dir" /\ ~fsAtStart[p].ok
WalkSucceeded == ~SourceMissing /\ ~SourceNotDirectory /\ ~WalkRaises

\* The absolute path of the k-th candidate.
CandidatePath(k) ==
  IF variant = "deny" THEN files[k].parentPath \o Slash \o files[k].name
  ELSE sourcePath \o Slash \o files[k]

Readable(p) ==
  p \in DOMAIN fsAtStart /\ fsAtStart[p].kind = "file" /\ fsAtStart[p].ok

ReadRaises == WalkSucceeded /\ \E k \in 1..Len(files) : ~Readable(CandidatePath(k))

\* C1: in both variants a run in which an error is raised (source path missing,
\* not a directory, the walk failing, or the read of any candidate failing) ends
\* with exit status 1 and leaves the output file as it was, neither created nor
\* modified; the single write happens only after every candidate was read.
C1_ErrorsLeaveOutput ==
  /\ (pc = "exited" /\ (SourceMissing \/ SourceNotDirectory \/ WalkRaises \/ ReadRaises)) =>
       /\ exitCode = 1
       /\ written = <<>>
       /\ fs = fsAtStart
  /\ (fs # fsAtStart \/ written # <<>>) =>
       /\ Len(written) = 1
       /\ written[1].path = outputPath
       /\ Len(readLog) = Len(files)
       /\ \A k \in 1..Len(files) : readLog[k] = CandidatePath(k) /\ Readable(readLog[k])

\* C1 witness: the second read failed after a first read that succeeded, the
\* process exited 1, and the output file that existed before is still there.
C1_Witness ==
  /\ pc = "exited" /\ exitCode = 1
  /\ Len(readLog) = 2
  /\ Readable(readLog[1]) /\ ~Readable(readLog[2])
  /\ outputPath \in DOMAIN fsAtStart
  /\ fs[outputPath] = fsAtStart[outputPath]

\* C2: in both variants, when the candidate list is empty after filtering the
\* run warns, exits 0, reads no file, writes nothing and leaves the output
\* path as it was (not created if absent, not modified if present).
C2_NoFilesIsNoOp ==
  (pc = "exited" /\ WalkSucceeded /\ files = <<>>) =>
    /\ warned
    /\ exitCode = 0
    /\ readLog = <<>>
    /\ written = <<>>
    /\ fs = fsAtStart

\* C2 witness: the source directory holds entries, every one was filtered out,
\* and the run ended with a warning beside an output file it did not touch.
C2_Witness ==
  /\ pc = "exited" /\ warned /\ exitCode = 0
  /\ files = <<>>
  /\ DOMAIN tree # {}
  /\ outputPath \in DOMAIN fs


\* What the combined document must be, fragment by fragment: the title, then
\* for each candidate a newline, its separator, a newline and its body.
RECURSIVE Blocks(_, _, _)
Blocks(labels, bodies, k) ==
  IF k > Len(labels) THEN <<>>
  ELSE NewLine \o SeparatorHead \o labels[k] \o SeparatorTail \o NewLine \o bodies[k]
         \o Blocks(labels, bodies, k + 1)

Document(labels, bodies) == Title \o Blocks(labels, bodies, 1)

\* a sorts before b in lexicographic order of code units.
LexBefore(a, b) ==
  \E k \in 1..Len(b) :
    /\ \A j \in 1..(k - 1) : j <= Len(a) /\ a[j] = b[j]
    /\ k > Len(a) \/ CodeUnits[a[k]] < CodeUnits[b[k]]

HasSuffix(s, t) == Len(s) >= Len(t) /\ SubSeq(s, Len(s) - Len(t) + 1, Len(s)) = t

\* The relative paths of the enumerated entries that end in a markdown extension.
MarkdownEntries ==
  {SubSeq(p, Len(sourcePath) + 2, Len(p)) : p \in
     {q \in DOMAIN tree : HasSuffix(q, ExtMd) \/ HasSuffix(q, ExtMdx) \/ HasSuffix(q, ExtMarkdown)}}

IsMarkdownName(name) == HasSuffix(name, ExtMd)

First == hist[1]

\* The second walk listed the candidates it shares with the first run in the
\* order of the first run (nothing changed in between, the walker included).
SameEnumeration ==
  SelectSeq(files, LAMBDA x : \E k \in 1..Len(First.files) : First.files[k] = x)
    = First.files

\* C3: the tool is idempotent: a second run after a first successful run, with
\* the same --src and --out (the defaults included) and nothing else changed,
\* overwrites the output file with the content the first run wrote.
C3_Idempotent ==
  (run = 2 /\ pc = "exited" /\ First.written # <<>> /\ SameEnumeration) =>
    /\ written # <<>>
    /\ written[1].data = First.written[1].data

\* C4: in the denylist variant the output does not depend on the walker: two
\* enumeration orders of the same directory contents give the same candidate
\* list after the sort, and so the same document.
C4_WalkOrderIndependent ==
  (variant = "deny" /\ run = 2 /\ pc \in {"read", "write", "exited"}
     /\ tree = First.tree) =>
    /\ files = First.files
    /\ (written # <<>> /\ First.written # <<>>) =>
         written[1].data = First.written[1].data

\* A file name against one pattern of the denylist read as a glob: "*" stands
\* for zero or more characters, every other character for itself, and the
\* pattern covers the whole name.
RECURSIVE GlobMatch(_, _)
GlobMatch(s, pat) ==
  IF pat = <<>> THEN s = <<>>
  ELSE IF Head(pat) = "*"
       THEN \E n \in 0..Len(s) : GlobMatch(SubSeq(s, n + 1, Len(s)), Tail(pat))
       ELSE s # <<>> /\ Head(s) = Head(pat) /\ GlobMatch(Tail(s), Tail(pat))

GlobExcluded(name) == \E k \in 1..Len(excludeFiles) : GlobMatch(name, excludeFiles[k])

\* The folders on the parent-directory path of an entry, by name.
FoldersAbove(p) ==
  LET segs == split(p, "/") IN {segs[k] : k \in 1..(Len(segs) - 1)} \ {<<>>}

UnderExcludedFolder(p) ==
  \E k \in 1..Len(excludeFolders) : excludeFolders[k] \in FoldersAbove(p)

\* Entry p of the listed tree is in the candidate list.
IsCandidate(p) ==
  \E k \in 1..Len(files) : files[k].parentPath \o Slash \o files[k].name = p

Walked == pc \in {"read", "write", "exited"} /\ WalkSucceeded

\* C5: in the denylist variant the folder rule selects by folder NAME: a
\* regular file whose name matches no excluded file pattern is a candidate
\* exactly when no folder on its parent-directory path is named .git, tmp,
\* node_modules, dist or build (a folder named builder excludes nothing).
C5_FolderRuleByName ==
  (variant = "deny" /\ Walked) =>
    \A p \in DOMAIN tree :
      (/\ tree[p].kind = "file"
       /\ ~GlobExcluded(basename(p))
       /\ ~isExcludedFile([name |-> basename(p)])) =>
        (IsCandidate(p) <=> ~UnderExcludedFolder(p))

\* C6: in the denylist variant the file rule is a glob match on the file name:
\* a regular file outside every excluded folder is dropped exactly when its
\* name matches one of the six patterns read as globs, "." standing only for
\* itself (catalog.md matches none and stays).
C6_FilePatternIsGlob ==
  (variant = "deny" /\ Walked) =>
    \A p \in DOMAIN tree :
      (/\ tree[p].kind = "file"
       /\ ~UnderExcludedFolder(p)
       /\ ~isExcludedFolder([parentPath |-> dirname(p)])) =>
        (~IsCandidate(p) <=> GlobExcluded(basename(p)))

====
